---- MODULE Spec2Model ----
(***************************************************************************)
(* State-machine model of http-profiler (src/src/main.rs,                  *)
(* src/src/connect.rs): the sequential run of main -> Profiler::profile,   *)
(* and Profiler::publish applied to a Profiler's collections.              *)
(*                                                                         *)
(* Text is modelled as a sequence of one-character strings; "CR" and "LF"  *)
(* stand for \r and \n, "xFF" for a byte that is not valid UTF-8 and       *)
(* "uFFFD" for the replacement character.  Durations are integers          *)
(* (nanoseconds).  An Option is a sequence of length 0 (None) or 1 (Some). *)
(***************************************************************************)
EXTENDS Integers, Sequences, FiniteSets, TLC

VARIABLES pc, scheme, number_of_requests, next_request,
          successful_responses, failed_responses,
          socket_addresses, connect_log, connection,
          read_buffer, elapsed_time, fatal_error, exit_code, report

vars == <<pc, scheme, number_of_requests, next_request,
          successful_responses, failed_responses,
          socket_addresses, connect_log, connection,
          read_buffer, elapsed_time, fatal_error, exit_code, report>>

(* ------------------------------ bounds --------------------------------- *)
MaxRequests == 2
MaxAddrs == 2
MaxDuration == 1
MaxSucc == 3
MaxFail == 2
MaxLatency == 3

(* --------------------------- program constants ------------------------- *)
I32Max == 2147483647
PanicExitCode == 101

(* ------------------------------ helpers -------------------------------- *)
None == <<>>
Some(x) == <<x>>

SetMin(S) == CHOOSE x \in S : \A y \in S : x <= y

Last(s) == s[Len(s)]

(* ------------------------------ inputs --------------------------------- *)
Schemes == {"http", "https", "ftp"}

Addresses == 1..MaxAddrs

(* what the resolver can return: a non-empty list of distinct addresses *)
AddrLists ==
  UNION { { s \in [1..n -> Addresses] : \A a, b \in 1..n : a # b => s[a] # s[b] }
          : n \in 1..MaxAddrs }

R_empty == <<>>
R_200 == <<"H","T","T","P","/","1",".","1"," ","2","0","0"," ","O","K","CR","LF","CR","LF","h","i">>
R_404 == <<"H","T","T","P","/","1",".","1"," ","4","0","4"," ","N","F","CR","LF","CR","LF">>
R_badcode == <<"H","T","T","P","/","1",".","1"," ","a","b"," ","CR","LF","CR","LF","xFF">>
R_nosplit == <<"H","T","T","P","/","1","x","1"," ","-","7"," ">>
R_garbage == <<"o","o","p","s">>
R_http10 == <<"H","T","T","P","/","1",".","0"," ","2","0","0"," ","O","K","CR","LF","CR","LF">>
R_nospace == <<"H","T","T","P","/","1",".","1"," ","2","0","0","CR","LF"," ">>

Responses == {R_empty, R_200, R_404, R_badcode, R_nosplit, R_garbage, R_http10, R_nospace}

IoErrors == {"WriteError", "FlushError", "ReadError"}

(* ------------------- parse_status_code_and_page ------------------------ *)
from_utf8_lossy(source) ==
  [k \in 1..Len(source) |-> IF source[k] = "xFF" THEN "uFFFD" ELSE source[k]]

CharLen(c) == IF c = "uFFFD" THEN 3 ELSE 1

RECURSIVE StrLen(_)
StrLen(text) == IF text = <<>> THEN 0 ELSE CharLen(Head(text)) + StrLen(Tail(text))

StatusPrefix == <<"H","T","T","P","/","1",".","1"," ">>

(* the unescaped '.' of the pattern matches any character but \n *)
MatchesPrefix(text) ==
  /\ Len(text) >= Len(StatusPrefix)
  /\ \A k \in 1..Len(StatusPrefix) :
       IF StatusPrefix[k] = "." THEN text[k] # "LF" ELSE text[k] = StatusPrefix[k]

(* positions of a space that can end the lazy group (.*?) *)
CodeEnds(text) ==
  { p \in (Len(StatusPrefix) + 1)..Len(text) :
      /\ text[p] = " "
      /\ \A q \in (Len(StatusPrefix) + 1)..(p - 1) : text[q] # "LF" }

re_captures(text) ==
  IF MatchesPrefix(text) /\ CodeEnds(text) # {}
  THEN Some(SubSeq(text, Len(StatusPrefix) + 1, SetMin(CodeEnds(text)) - 1))
  ELSE None

Digits == <<"0","1","2","3","4","5","6","7","8","9">>

IsDigit(c) == \E d \in 1..10 : Digits[d] = c

DigitVal(c) == (CHOOSE d \in 1..10 : Digits[d] = c) - 1

RECURSIVE DecimalValue(_)
DecimalValue(s) ==
  IF s = <<>> THEN 0
  ELSE 10 * DecimalValue(SubSeq(s, 1, Len(s) - 1)) + DigitVal(s[Len(s)])

(* str::parse::<i32>: optional sign, at least one digit, value in range *)
parse_i32(s) ==
  LET signed == s # <<>> /\ s[1] \in {"+", "-"}
      body == IF signed THEN Tail(s) ELSE s
      neg == signed /\ s[1] = "-"
      val == IF neg THEN 0 - DecimalValue(body) ELSE DecimalValue(body)
  IN IF body = <<>> \/ (\E k \in 1..Len(body) : ~IsDigit(body[k])) THEN None
     ELSE IF val > I32Max \/ val < 0 - I32Max - 1 THEN None
     ELSE Some(val)

map_or_0(opt) == IF opt = None THEN 0 ELSE opt[1]

SplitPoints(text) ==
  { p \in 1..(Len(text) - 3) :
      text[p] = "CR" /\ text[p+1] = "LF" /\ text[p+2] = "CR" /\ text[p+3] = "LF" }

(* text.splitn(2, "\r\n\r\n").last() *)
splitn_last(text) ==
  IF SplitPoints(text) = {} THEN text
  ELSE SubSeq(text, SetMin(SplitPoints(text)) + 4, Len(text))

parse_status_code_and_page_NoEmptyCheck(source) ==
  LET text == from_utf8_lossy(source)
      captures == re_captures(text)
  IN IF captures = None
     THEN [panic |-> TRUE, code |-> 0, page |-> <<>>]
     ELSE [panic |-> FALSE, code |-> map_or_0(parse_i32(captures[1])),
           page |-> splitn_last(text)]

parse_status_code_and_page(source) ==
  LET text == from_utf8_lossy(source)
      captures == re_captures(text)
  IN IF StrLen(text) = 0
     THEN [panic |-> FALSE, code |-> 0, page |-> text]
     ELSE IF captures = None
     THEN [panic |-> TRUE, code |-> 0, page |-> <<>>]
     ELSE [panic |-> FALSE, code |-> map_or_0(parse_i32(captures[1])),
           page |-> splitn_last(text)]

(* --------------------------- initial state ----------------------------- *)
NoReport == [published |-> FALSE]

Init ==
  /\ pc = "main"
  /\ scheme \in Schemes
  /\ number_of_requests \in 0..MaxRequests
  /\ next_request = 0
  /\ successful_responses = <<>>
  /\ failed_responses = <<>>
  /\ socket_addresses = <<>>
  /\ connect_log = <<>>
  /\ connection = 0
  /\ read_buffer = <<>>
  /\ elapsed_time = 0
  /\ fatal_error = "none"
  /\ exit_code = -1
  /\ report = NoReport

(* process::exit(1) after the diagnostic *)
Exit1(err) ==
  /\ pc' = "exited"
  /\ fatal_error' = err
  /\ exit_code' = 1

(* main: argument validation, Profiler::new, entry of profile *)
main ==
  /\ pc = "main"
  /\ IF number_of_requests <= 0 THEN Exit1("BadCount")
     ELSE IF scheme \notin {"http", "https"} THEN Exit1("BadScheme")
     ELSE /\ pc' = "loop"
          /\ UNCHANGED <<fatal_error, exit_code>>
  /\ UNCHANGED <<scheme, number_of_requests, next_request, successful_responses,
                 failed_responses, socket_addresses, connect_log, connection,
                 read_buffer, elapsed_time, report>>

(* head of `for _ in 0..self.number_of_requests`; when the range is        *)
(* exhausted profile returns and main returns right after it               *)
loop_head ==
  /\ pc = "loop"
  /\ IF next_request < number_of_requests
     THEN /\ next_request' = next_request + 1
          /\ pc' = IF scheme = "https" THEN "ssl_builder" ELSE "socket_addrs"
          /\ exit_code' = exit_code
     ELSE /\ next_request' = next_request
          /\ pc' = "done"
          /\ exit_code' = 0
  /\ socket_addresses' = <<>>
  /\ connect_log' = <<>>
  /\ connection' = 0
  /\ read_buffer' = <<>>
  /\ elapsed_time' = 0
  /\ UNCHANGED <<scheme, number_of_requests, successful_responses,
                 failed_responses, fatal_error, report>>

(* create_ssl_connection: SslConnector::builder(SslMethod::tls())? *)
ssl_builder ==
  /\ pc = "ssl_builder"
  /\ \/ /\ pc' = "socket_addrs"
        /\ UNCHANGED <<fatal_error, exit_code>>
     \/ Exit1("SslInitError")
  /\ UNCHANGED <<scheme, number_of_requests, next_request, successful_responses,
                 failed_responses, socket_addresses, connect_log, connection,
                 read_buffer, elapsed_time, report>>

(* create_regular_connection: self.target.socket_addrs(|| None)? *)
socket_addrs ==
  /\ pc = "socket_addrs"
  /\ \/ /\ socket_addresses' \in AddrLists
        /\ pc' = "connect"
        /\ UNCHANGED <<fatal_error, exit_code>>
     \/ /\ Exit1("ResolveError")
        /\ UNCHANGED socket_addresses
  /\ UNCHANGED <<scheme, number_of_requests, next_request, successful_responses,
                 failed_responses, connect_log, connection,
                 read_buffer, elapsed_time, report>>

(* the address the k-th iteration of socket_addresses.iter() yields *)
IterAddress_Reversed(k) == socket_addresses[Len(socket_addresses) + 1 - k]

IterAddress(k) == socket_addresses[k]

(* connect_timeout with the unreachable condition counted as a failure    *)
(* record of the attempt                                                   *)
connect_timeout_Recorded ==
  /\ pc = "connect"
  /\ LET k == Len(connect_log) + 1
         address == socket_addresses[k]
     IN \/ /\ connect_log' = Append(connect_log, [addr |-> address, ok |-> TRUE])
           /\ connection' = address
           /\ pc' = IF scheme = "https" THEN "handshake" ELSE "fetch"
           /\ UNCHANGED <<fatal_error, exit_code, failed_responses>>
        \/ /\ connect_log' = Append(connect_log, [addr |-> address, ok |-> TRUE])
           /\ connection' = 0
           /\ Exit1("SetTimeoutError")
           /\ UNCHANGED failed_responses
        \/ /\ connect_log' = Append(connect_log, [addr |-> address, ok |-> FALSE])
           /\ connection' = 0
           /\ IF k = Len(socket_addresses)
              THEN /\ failed_responses' = Append(failed_responses, "NotReachableError")
                   /\ pc' = "loop"
                   /\ UNCHANGED <<fatal_error, exit_code>>
              ELSE UNCHANGED <<pc, fatal_error, exit_code, failed_responses>>
  /\ UNCHANGED <<scheme, number_of_requests, next_request, successful_responses,
                 socket_addresses, read_buffer, elapsed_time, report>>

(* one iteration of the loop over the candidate addresses *)
connect_timeout ==
  /\ pc = "connect"
  /\ LET k == Len(connect_log) + 1
         address == IterAddress(k)
     IN \/ (* Ok(connection): both timeouts set, the stream is returned *)
           /\ connect_log' = Append(connect_log, [addr |-> address, ok |-> TRUE])
           /\ connection' = address
           /\ pc' = IF scheme = "https" THEN "handshake" ELSE "fetch"
           /\ UNCHANGED <<fatal_error, exit_code>>
        \/ (* Ok(connection), set_read_timeout or set_write_timeout fails *)
           /\ connect_log' = Append(connect_log, [addr |-> address, ok |-> TRUE])
           /\ connection' = 0
           /\ Exit1("SetTimeoutError")
        \/ (* Err(e): logged, next address; after the last one NotReachableError *)
           /\ connect_log' = Append(connect_log, [addr |-> address, ok |-> FALSE])
           /\ connection' = 0
           /\ IF k = Len(socket_addresses)
              THEN Exit1("NotReachableError")
              ELSE UNCHANGED <<pc, fatal_error, exit_code>>
  /\ UNCHANGED <<scheme, number_of_requests, next_request, successful_responses,
                 failed_responses, socket_addresses,
                 read_buffer, elapsed_time, report>>

(* create_ssl_connection: connector.connect(host, stream)? *)
ssl_connect ==
  /\ pc = "handshake"
  /\ \/ /\ pc' = "fetch"
        /\ UNCHANGED <<fatal_error, exit_code>>
     \/ Exit1("HandshakeError")
  /\ UNCHANGED <<scheme, number_of_requests, next_request, successful_responses,
                 failed_responses, socket_addresses, connect_log, connection,
                 read_buffer, elapsed_time, report>>

(* fetch up to read_to_end: write_all?, flush?, read_to_end?; an Err is    *)
(* pushed to failed_responses by the caller's match                        *)
fetch_io ==
  /\ pc = "fetch"
  /\ \/ \E e \in IoErrors :
          /\ failed_responses' = Append(failed_responses, e)
          /\ pc' = "loop"
          /\ UNCHANGED <<read_buffer, elapsed_time>>
     \/ \E r \in Responses, t \in 0..MaxDuration :
          /\ read_buffer' = r
          /\ elapsed_time' = t
          /\ pc' = "parse"
          /\ UNCHANGED failed_responses
  /\ UNCHANGED <<scheme, number_of_requests, next_request, successful_responses,
                 socket_addresses, connect_log, connection,
                 fatal_error, exit_code, report>>

(* fetch after read_to_end: parse, Ok(ResponseProperties), pushed to       *)
(* successful_responses by the caller's match; unwrap() on None panics     *)
fetch_parse ==
  /\ pc = "parse"
  /\ LET parsed == parse_status_code_and_page(read_buffer)
     IN IF parsed.panic
        THEN /\ pc' = "panicked"
             /\ exit_code' = PanicExitCode
             /\ UNCHANGED successful_responses
        ELSE /\ successful_responses' =
                  Append(successful_responses,
                         [time_taken |-> elapsed_time,
                          status_code |-> parsed.code,
                          document |-> parsed.page])
             /\ pc' = "loop"
             /\ UNCHANGED exit_code
  /\ UNCHANGED <<scheme, number_of_requests, next_request, failed_responses,
                 socket_addresses, connect_log, connection,
                 read_buffer, elapsed_time, fatal_error, report>>

Next ==
  \/ main
  \/ loop_head
  \/ ssl_builder
  \/ socket_addrs
  \/ connect_timeout
  \/ ssl_connect
  \/ fetch_io
  \/ fetch_parse

Spec == Init /\ [][Next]_vars

(* ------------------------- Profiler::publish --------------------------- *)
(* f64 division: x / 0.0 is NaN for x = 0 and infinite otherwise *)
f64_div(a, b) ==
  IF b = 0
  THEN [kind |-> IF a = 0 THEN "NaN" ELSE "inf", num |-> 0, den |-> 0]
  ELSE [kind |-> "finite", num |-> a, den |-> b]

(* x * (100 as f64): NaN and infinity are absorbing *)
f64_times_100(x) == [x EXCEPT !.num = 100 * @]

(* Duration::checked_div(rhs): None for rhs = 0, else truncating division *)
checked_div(d, rhs) == IF rhs = 0 THEN None ELSE Some(d \div rhs)

RECURSIVE Sum(_)
Sum(s) == IF s = <<>> THEN 0 ELSE Head(s) + Sum(Tail(s))

RECURSIVE Insert(_, _)
Insert(x, s) ==
  IF s = <<>> THEN <<x>>
  ELSE IF x < Head(s) THEN <<x>> \o s
  ELSE <<Head(s)>> \o Insert(x, Tail(s))

(* itertools sorted(): stable ascending sort *)
RECURSIVE sorted(_)
sorted(s) == IF s = <<>> THEN <<>> ELSE Insert(Last(s), sorted(SubSeq(s, 1, Len(s) - 1)))

(* iter().min() / iter().max() *)
iter_min(s) == IF s = <<>> THEN None ELSE Some(CHOOSE x \in {s[k] : k \in 1..Len(s)} : \A k \in 1..Len(s) : x <= s[k])

iter_max(s) == IF s = <<>> THEN None ELSE Some(CHOOSE x \in {s[k] : k \in 1..Len(s)} : \A k \in 1..Len(s) : x >= s[k])

(* max_by_key(|i| i.document.len()): the last of the maximal elements *)
max_by_key_len(resp) ==
  IF resp = <<>> THEN None
  ELSE LET best == { k \in 1..Len(resp) :
                       \A j \in 1..Len(resp) : StrLen(resp[j].document) <= StrLen(resp[k].document) }
           k == CHOOSE k \in best : \A j \in best : j <= k
       IN Some(resp[k].document)

(* v[idx] with a 0-based index: out of bounds panics *)
InBounds(v, idx) == idx >= 0 /\ idx < Len(v)

Index(v, idx) == v[idx + 1]

(* median_of with the even case averaging indices x/2 and x/2 + 1 *)
median_of_UpperNeighbour(sorted_durations) ==
  LET x == Len(sorted_durations)
  IN IF x = 0 THEN [panic |-> FALSE, value |-> None]
     ELSE IF x = 1 THEN [panic |-> FALSE, value |-> Some(Index(sorted_durations, 0))]
     ELSE IF x % 2 = 0
     THEN IF InBounds(sorted_durations, (x \div 2) + 1)
          THEN [panic |-> FALSE,
                value |-> Some((Index(sorted_durations, x \div 2)
                                + Index(sorted_durations, (x \div 2) + 1)) \div 2)]
          ELSE [panic |-> TRUE, value |-> None]
     ELSE [panic |-> FALSE, value |-> Some(Index(sorted_durations, x \div 2))]

(* match sorted_durations.len() { 0 => .., 1 => .., x => .. } *)
median_of(sorted_durations) ==
  LET x == Len(sorted_durations)
  IN IF x = 0 THEN [panic |-> FALSE, value |-> None]
     ELSE IF x = 1 THEN [panic |-> FALSE, value |-> Some(Index(sorted_durations, 0))]
     ELSE IF x % 2 = 0
     THEN IF InBounds(sorted_durations, x \div 2)
          THEN [panic |-> FALSE, value |-> Some(Index(sorted_durations, x \div 2))]
          ELSE [panic |-> TRUE, value |-> None]
     ELSE IF InBounds(sorted_durations, x \div 2) /\ InBounds(sorted_durations, (x + 1) \div 2)
          THEN [panic |-> FALSE,
                value |-> checked_div(Index(sorted_durations, x \div 2)
                                      + Index(sorted_durations, (x + 1) \div 2), 2)]
          ELSE [panic |-> TRUE, value |-> None]

(* the lines publish prints; a line that reports "No ... recorded" or      *)
(* "Could not display ..." is None                                         *)
publish_lines(succ, failed) ==
  LET total_requests == Len(succ) + Len(failed)
      percentage_succeeded == f64_div(Len(succ), total_requests)
      unsuccessful_status_codes ==
        SelectSeq([k \in 1..Len(succ) |-> succ[k].status_code], LAMBDA c : c # 200)
      durations == [k \in 1..Len(succ) |-> succ[k].time_taken]
      mean == checked_div(Sum(durations), Len(durations))
      sorted_durations == sorted(durations)
      sizes == [k \in 1..Len(succ) |-> StrLen(succ[k].document)]
      median == median_of(sorted_durations)
  IN [published |-> TRUE,
      panic |-> median.panic,
      representative |-> max_by_key_len(succ),
      total_requests |-> total_requests,
      percentage_succeeded |-> Some(f64_times_100(percentage_succeeded)),
      percentage_non_200 |->
        Some(f64_times_100(f64_div(Len(unsuccessful_status_codes), Len(succ)))),
      unique_codes |-> {unsuccessful_status_codes[k] : k \in 1..Len(unsuccessful_status_codes)},
      fastest |-> iter_min(durations),
      mean |-> mean,
      median |-> median.value,
      slowest |-> iter_max(durations),
      smallest |-> iter_min(sizes),
      largest |-> iter_max(sizes),
      errors |-> failed]

publish ==
  /\ pc = "publish"
  /\ report' = publish_lines(successful_responses, failed_responses)
  /\ IF report'.panic
     THEN pc' = "panicked" /\ exit_code' = PanicExitCode
     ELSE pc' = "published" /\ UNCHANGED exit_code
  /\ UNCHANGED <<scheme, number_of_requests, next_request, successful_responses,
                 failed_responses, socket_addresses, connect_log, connection,
                 read_buffer, elapsed_time, fatal_error>>

(* the collections publish can be handed: every record is what a fetch     *)
(* produces from a response that parses                                    *)
PublishedResponses == {R_empty, R_200, R_404}

ResponseRecords ==
  { [time_taken |-> t,
     status_code |-> parse_status_code_and_page(r).code,
     document |-> parse_status_code_and_page(r).page]
    : t \in 0..MaxLatency, r \in PublishedResponses }

SeqsUpTo(S, n) == UNION { [1..m -> S] : m \in 0..n }

PublishInit ==
  /\ pc = "publish"
  /\ scheme = "http"
  /\ successful_responses \in SeqsUpTo(ResponseRecords, MaxSucc)
  /\ failed_responses \in SeqsUpTo({"ReadError"}, MaxFail)
  /\ number_of_requests = Len(successful_responses) + Len(failed_responses)
  /\ next_request = number_of_requests
  /\ socket_addresses = <<>>
  /\ connect_log = <<>>
  /\ connection = 0
  /\ read_buffer = <<>>
  /\ elapsed_time = 0
  /\ fatal_error = "none"
  /\ exit_code = -1
  /\ report = NoReport

PublishNext == publish

PublishSpec == PublishInit /\ [][PublishNext]_vars

(* ======================= properties of the run ========================= *)
Records == Len(successful_responses) + Len(failed_responses)

(* every candidate address of the current attempt was tried and failed *)
AllAddressesFailed ==
  /\ socket_addresses # <<>>
  /\ Len(connect_log) = Len(socket_addresses)
  /\ \A k \in 1..Len(connect_log) : ~connect_log[k].ok

Malformed(bytes) == bytes # <<>> /\ re_captures(from_utf8_lossy(bytes)) = None

(* C1: when the process stops for a reason other than a connection-        *)
(* establishment error (profile returned, or the run died in an attempt),  *)
(* every one of the N attempts has run and left exactly one record:        *)
(* successes + failures = N.                                               *)
C1_OneRecordPerAttempt ==
  pc \in {"done", "panicked"} => Records = number_of_requests

(* C2: an attempt that read a non-empty response not starting with         *)
(* `HTTP/1.1 <code> ` adds one entry to failed_responses and the loop goes *)
(* on; the process does not panic.                                         *)
C2_MalformedIsFailure ==
  [][(pc = "parse" /\ Malformed(read_buffer))
       => /\ pc' = "loop"
          /\ Len(failed_responses') = Len(failed_responses) + 1
          /\ successful_responses' = successful_responses]_vars

(* C3: a TLS handshake failure adds one entry to failed_responses and the  *)
(* loop goes on to the next attempt; the process is not terminated.        *)
C3_HandshakeFailureIsPerAttempt ==
  [][(pc = "handshake" /\ pc' # "fetch")
       => /\ pc' = "loop"
          /\ Len(failed_responses') = Len(failed_responses) + 1
          /\ exit_code' = exit_code]_vars

(* C4: once the loop has completed all its attempts and the run is over,   *)
(* publish has been invoked; it is invoked only after the loop finished.   *)
C4_PublishAfterLoop ==
  /\ pc = "done" => report.published
  /\ report.published => next_request = number_of_requests

(* C5: with no successful response, publish panics nowhere and every       *)
(* aggregate statistic reports "not available" (so none is a NaN).         *)
C5_EmptyAllNotAvailable ==
  (report.published /\ successful_responses = <<>>)
    => /\ ~report.panic
       /\ report.percentage_succeeded = None
       /\ report.percentage_non_200 = None
       /\ report.fastest = None
       /\ report.mean = None
       /\ report.median = None
       /\ report.slowest = None
       /\ report.smallest = None
       /\ report.largest = None
       /\ report.representative = None

(* C6 as stated: when every candidate address fails to connect the process *)
(* has exited with a non-zero status and both collections are empty.       *)
C6_UnreachableMeansEmpty ==
  AllAddressesFailed
    => /\ pc = "exited"
       /\ exit_code > 0
       /\ successful_responses = <<>>
       /\ failed_responses = <<>>

(* C6 amended: when every candidate address of an attempt fails to connect *)
(* the process has exited with status 1 on NotReachableError and that      *)
(* attempt has left no record: the collections hold one record per earlier *)
(* attempt, so both are empty when the first attempt is the one failing.   *)
C6_UnreachableLeavesNoRecord ==
  AllAddressesFailed
    => /\ pc = "exited"
       /\ exit_code = 1
       /\ fatal_error = "NotReachableError"
       /\ Records = next_request - 1
       /\ (next_request = 1 => successful_responses = <<>> /\ failed_responses = <<>>)

C6_Witness ==
  /\ AllAddressesFailed
  /\ Len(socket_addresses) = 2
  /\ next_request = 2
  /\ Len(successful_responses) = 1
  /\ pc = "exited"

(* the textbook median of an ascending sequence of n >= 1 durations *)
StandardMedian(s) ==
  LET n == Len(s)
  IN IF n % 2 = 1 THEN s[(n \div 2) + 1]
     ELSE (s[n \div 2] + s[(n \div 2) + 1]) \div 2

PublishedDurations ==
  sorted([k \in 1..Len(successful_responses) |-> successful_responses[k].time_taken])

(* C7: over n >= 1 successful responses the reported median is the middle  *)
(* element of the sorted durations for odd n and the average of the two    *)
(* middle elements (indices n/2 - 1 and n/2) for even n.                   *)
C7_MedianIsStandard ==
  (report.published /\ Len(successful_responses) >= 1)
    => report.median = Some(StandardMedian(PublishedDurations))

(* C8: over n >= 1 successful responses publish indexes inside the sorted  *)
(* durations (no panic) and min <= median <= max and min <= mean <= max.   *)
C8_LatencyOrder ==
  (report.published /\ Len(successful_responses) >= 1)
    => /\ ~report.panic
       /\ pc = "published"
       /\ report.fastest # None /\ report.slowest # None
       /\ report.median # None /\ report.mean # None
       /\ report.fastest[1] <= report.median[1]
       /\ report.median[1] <= report.slowest[1]
       /\ report.fastest[1] <= report.mean[1]
       /\ report.mean[1] <= report.slowest[1]

C8_Witness ==
  /\ pc = "published"
  /\ Len(successful_responses) = 2
  /\ report.fastest[1] < report.median[1]
  /\ report.fastest[1] < report.mean[1]
  /\ report.mean[1] < report.slowest[1]

(* C9: an attempt whose write and flush succeeded and whose read returned  *)
(* zero bytes is appended to successful_responses with status code 0 and   *)
(* an empty body, and nothing is appended to failed_responses.             *)
C9_ZeroBytesIsSuccess ==
  [][(pc = "parse" /\ read_buffer = <<>>)
       => /\ successful_responses' =
               Append(successful_responses,
                      [time_taken |-> elapsed_time, status_code |-> 0, document |-> <<>>])
          /\ failed_responses' = failed_responses
          /\ pc' = "loop"]_vars

C9_Witness ==
  /\ pc = "loop"
  /\ next_request = 1
  /\ connection # 0
  /\ read_buffer = <<>>
  /\ failed_responses = <<>>
  /\ Len(successful_responses) = 1
  /\ successful_responses[1].status_code = 0
  /\ successful_responses[1].document = <<>>

(* C10: within an attempt the addresses are tried in resolver order, each  *)
(* failure moves to the next one, nothing is tried after the first address *)
(* that connects, a returned stream is that address, and the attempt ends  *)
(* in NotReachableError exactly when every candidate address failed.       *)
C10_InOrderFirstConnectWins ==
  /\ Len(connect_log) <= Len(socket_addresses)
  /\ \A k \in 1..Len(connect_log) : connect_log[k].addr = socket_addresses[k]
  /\ \A k \in 1..(Len(connect_log) - 1) : ~connect_log[k].ok
  /\ pc = "connect" => \A k \in 1..Len(connect_log) : ~connect_log[k].ok
  /\ connection # 0
       => /\ connect_log # <<>>
          /\ Last(connect_log).ok
          /\ connection = Last(connect_log).addr
  /\ fatal_error = "NotReachableError" <=> AllAddressesFailed

C10_Witness ==
  /\ socket_addresses = <<2, 1>>
  /\ Len(connect_log) = 2
  /\ ~connect_log[1].ok
  /\ connect_log[2].ok
  /\ connection = 1
  /\ pc = "fetch"

====
